---- MODULE Spec2Model ----
(***************************************************************************)
(* A model of retail-footfall-analyzer.py: RetailFootfallAnalyzer.analyze  *)
(* runs a two-node LangGraph cycle (agent <-> tools) over a MessagesState. *)
(* The state graph runtime (langgraph==0.2.59: the add_messages reducer,   *)
(* the ToolNode and the super-step loop with its recursion limit) is       *)
(* modelled as far as the program's behaviour depends on it.               *)
(***************************************************************************)
EXTENDS Integers, Sequences, FiniteSets, TLC

\* ------------------------------------------------------------------ bounds

\* How far the language model's tool requests of one run may depart from the
\* plain request (one call of the registered tool for a known location):
\* every further call in a response and every call of another shape costs 1.
MaxVariety == 2

\* Only the first MaxVariedTurns responses of a run may depart from the plain
\* request; a final answer and a failure of the call are possible at any turn.
MaxVariedTurns == 2

\* With several calls in flight, the language model is called at most this
\* many times in each.
MaxScriptLen == 2

\* A query handed to the tool directly is made of at most this many fragments.
MaxFragments == 3

\* ---------------------------------------------------------------- constants

\* graph.invoke is called without a config: langgraph's default recursion_limit.
RecursionLimit == 25

ToolName == "retail_footprint_api"

SystemPrompt == "You are a retail analyst specializing in footfall patterns and competitive analysis. ..."

\* ------------------------------------------------------------------ strings

\* A tool query is a sequence of characters, so that lower() and `in` are
\* computed, not assumed.
UpperChars == <<"A","B","C","D","E","F","G","H","I","J","K","L","M",
                "N","O","P","Q","R","S","T","U","V","W","X","Y","Z">>

LowerChars == <<"a","b","c","d","e","f","g","h","i","j","k","l","m",
                "n","o","p","q","r","s","t","u","v","w","x","y","z">>

LowerChar(c) ==
    IF \E i \in DOMAIN UpperChars : UpperChars[i] = c
    THEN LowerChars[CHOOSE i \in DOMAIN UpperChars : UpperChars[i] = c]
    ELSE c

\* str.lower()
Lower(s) == [i \in DOMAIN s |-> LowerChar(s[i])]

\* `needle in hay` for strings
Contains(needle, hay) ==
    \E k \in 0..(Len(hay) - Len(needle)) :
        \A i \in 1..Len(needle) : hay[k + i] = needle[i]

KeyMarathahalli == <<"m","a","r","a","t","h","a","h","a","l","l","i">>

KeyPune == <<"p","u","n","e">>

QMarathahalli == <<"M","a","r","a","t","h","a","h","a","l","l","i">>

QPune == <<"P","U","N","E">>

QOther == <<"D","e","l","h","i">>

\* The queries the language model puts in its tool requests.
ToolQueries == {QMarathahalli, QPune, QOther}

\* The queries analyze is called with (the code never inspects them).
UserQueries ==
    {"Analyze the footfall patterns for retail stores in Marathahalli, Bangalore.",
     "What is the busiest day in Pune?"}

\* ---------------------------------------------------------------- mock tool

MockMarathahalli ==
    [location |-> "Marathahalli, Bangalore", average_daily |-> 1250,
     highest_hour |-> "6PM-7PM", busiest_day |-> "Saturday",
     density |-> "High", error |-> ""]

MockPune ==
    [location |-> "Pune, Maharashtra", average_daily |-> 980,
     highest_hour |-> "6PM-7PM", busiest_day |-> "Sunday",
     density |-> "Medium", error |-> ""]

MockNoData ==
    [location |-> "", average_daily |-> 0, highest_hour |-> "",
     busiest_day |-> "", density |-> "",
     error |-> "No specific data available for this location"]

\* A tool whose last branch answers with the Pune record.
MockDataDefaultsToPune(query) ==
    IF Contains(KeyMarathahalli, Lower(query)) THEN MockMarathahalli
    ELSE MockPune

\* A tool that looks for the keywords in the query as it is written.
MockDataCaseSensitive(query) ==
    IF Contains(KeyMarathahalli, query) THEN MockMarathahalli
    ELSE IF Contains(KeyPune, query) THEN MockPune
    ELSE MockNoData

\* The record _query_retail_footprint_api serialises for a query.
MockData(query) ==
    IF Contains(KeyMarathahalli, Lower(query)) THEN MockMarathahalli
    ELSE IF Contains(KeyPune, Lower(query)) THEN MockPune
    ELSE MockNoData

\* json.dumps of the three records the tool can build.
JsonDumps(data) ==
    IF data.error # ""
    THEN "{error: No specific data available for this location}"
    ELSE IF data.location = "Marathahalli, Bangalore"
    THEN "{location: Marathahalli, Bangalore, footfall_data: {average_daily: 1250, highest_hour: 6PM-7PM, busiest_day: Saturday}, competitor_insights: {density: High}}"
    ELSE "{location: Pune, Maharashtra, footfall_data: {average_daily: 980, highest_hour: 6PM-7PM, busiest_day: Sunday}, competitor_insights: {density: Medium}}"

QueryRetailFootprintApi(query) == JsonDumps(MockData(query))

\* ----------------------------------------------------------------- messages

\* id = 0 stands for a message whose id is None.
Message(type, content, calls, tcid, name, status) ==
    [type |-> type, id |-> 0, content |-> content, tool_calls |-> calls,
     tool_call_id |-> tcid, name |-> name, status |-> status]

SystemMessage(content) == Message("system", content, <<>>, 0, "", "")

HumanMessage(content) == Message("human", content, <<>>, 0, "", "")

AIMessage(content, calls) == Message("ai", content, calls, 0, "", "")

ToolMessage(content, name, tcid, status) ==
    Message("tool", content, <<>>, tcid, name, status)

\* A ToolInvocationRequest as the language model writes it, before it has an
\* id: the tool's name and its arguments (valid: the arguments fit the
\* single-string schema of langchain's Tool; when not, Tool.invoke raises).
CallShape(name, valid, query) ==
    [name |-> name, args |-> [valid |-> valid, query |-> query]]

PlainCall == CallShape(ToolName, TRUE, QMarathahalli)

CallShapes ==
    {CallShape(ToolName, TRUE, q) : q \in ToolQueries}
        \cup {CallShape(ToolName, FALSE, <<>>)}
        \cup {CallShape("unknown_tool", TRUE, QMarathahalli)}

ToolCall(shape, id) == [name |-> shape.name, args |-> shape.args, id |-> id]

\* The AIMessage ChatOpenAI returns: the response and its tool calls carry
\* ids the endpoint generated (fresh ones, nid, nid + 1, ...).
LlmResponse(shapes, nid) ==
    [AIMessage(IF shapes = <<>> THEN "final answer" ELSE "",
               [i \in DOMAIN shapes |-> ToolCall(shapes[i], nid + i)])
        EXCEPT !.id = nid]

\* ------------------------------------------------- MessagesState.add_messages

\* for m in msgs: if m.id is None: m.id = str(uuid.uuid4())
\* (the fresh ids are nid, nid + 1, ... in the order of the messages)
AssignIds(msgs, nid) ==
    LET assigned == [i \in DOMAIN msgs |->
                        IF msgs[i].id = 0
                        THEN [msgs[i] EXCEPT
                                !.id = nid + Cardinality({j \in 1..(i - 1) : msgs[j].id = 0})]
                        ELSE msgs[i]]
    IN  [msgs |-> SubSeq(assigned, 1, Len(msgs)),
         next |-> nid + Cardinality({j \in DOMAIN msgs : msgs[j].id = 0})]

\* left_idx_by_id.get(id): the (last) index in left of a message with this id
LeftIdx(left, id) ==
    IF \E i \in DOMAIN left : left[i].id = id
    THEN CHOOSE i \in DOMAIN left :
            /\ left[i].id = id
            /\ \A j \in DOMAIN left : left[j].id = id => j <= i
    ELSE 0

\* for m in right: replace the message of left with the same id, else append.
\* The loop's outcome in closed form: the message at an index of left is the
\* last message of right that the loop wrote there; the messages of right
\* whose id left does not know follow in their order.
MergeInto(left, right) ==
    LET writers(i) == {k \in DOMAIN right : right[k].id = left[i].id}
        written(i) == writers(i) # {} /\ LeftIdx(left, left[i].id) = i
        replaced == [i \in DOMAIN left |->
                        IF written(i)
                        THEN right[CHOOSE k \in writers(i) : \A l \in writers(i) : l <= k]
                        ELSE left[i]]
        appended == SelectSeq(right, LAMBDA m : LeftIdx(left, m.id) = 0)
    IN  replaced \o appended

\* The channel with no reducer: the node's return value becomes the state.
OverwriteMessages(left, right, nid) ==
    LET r == AssignIds(right, nid)
    IN  [msgs |-> r.msgs, next |-> r.next]

\* The reducer of MessagesState: the state's messages merged with a node's
\* return value. nid is the next unused id; the result names the one after.
AddMessages(left, right, nid) ==
    LET ided == {<<l, AssignIds(r, l.next)>> : l \in {AssignIds(left, nid)}, r \in {right}}
    IN  CHOOSE out \in {[msgs |-> MergeInto(p[1].msgs, p[2].msgs), next |-> p[2].next] :
                            p \in ided} : TRUE

\* ------------------------------------------------------------ graph nodes

\* isinstance(msg, SystemMessage)
IsSystem(m) == m.type = "system"

\* hasattr(msg, 'tool_calls'): of the message classes only AIMessage has it
HasToolCallsAttr(m) == m.type = "ai"

\* _call_model without the isinstance guard: a system message every call.
CallModelAlwaysInjects(messages, llm) ==
    LET msgs == <<SystemMessage(SystemPrompt)>> \o messages
    IN  IF llm.ok
        THEN msgs \o <<llm.response>>
        ELSE msgs \o <<HumanMessage("An error occurred: " \o llm.error)>>

\* _call_model whose except clause returns the messages without the error.
CallModelDropsError(messages, llm) ==
    LET msgs == IF ~(\E i \in DOMAIN messages : IsSystem(messages[i]))
                THEN <<SystemMessage(SystemPrompt)>> \o messages
                ELSE messages
    IN  IF llm.ok THEN msgs \o <<llm.response>> ELSE msgs

\* _call_model's return value. llm is the outcome of self.llm.invoke:
\* ok and the response, or not ok and the exception's text.
CallModel(messages, llm) ==
    LET msgs == IF ~(\E i \in DOMAIN messages : IsSystem(messages[i]))
                THEN <<SystemMessage(SystemPrompt)>> \o messages
                ELSE messages
    IN  IF llm.ok
        THEN msgs \o <<llm.response>>
        ELSE msgs \o <<HumanMessage("An error occurred: " \o llm.error)>>

\* _should_continue testing only that the attribute exists.
ShouldContinueAttrOnly(messages) ==
    IF HasToolCallsAttr(messages[Len(messages)]) THEN "tools" ELSE "END"

\* _should_continue looking at every message instead of the last one.
ShouldContinueAnyMessage(messages) ==
    IF \E i \in DOMAIN messages :
          HasToolCallsAttr(messages[i]) /\ messages[i].tool_calls # <<>>
    THEN "tools" ELSE "END"

\* _should_continue: "tools" or "END"
ShouldContinue(messages) ==
    LET last_message == messages[Len(messages)]
        has_tool_calls == /\ HasToolCallsAttr(last_message)
                          /\ last_message.tool_calls # <<>>
    IN  IF has_tool_calls THEN "tools" ELSE "END"

\* tools = [retail_tool]: ToolNode's tools_by_name
ToolsByName == {ToolName}

\* ToolNode(tools, handle_tool_errors=False)
HandleToolErrorsOff == FALSE

\* ToolNode(tools): handle_tool_errors is left at its default
HandleToolErrors == TRUE

\* The tool's invoke raises on this call: the tool is registered and the
\* arguments do not fit it (the handler itself takes any string).
ToolRaises(call) == call.name \in ToolsByName /\ ~call.args.valid

\* The tools node lets an exception of a tool escape into graph.invoke.
ToolNodeRaises(messages) ==
    /\ ~HandleToolErrors
    /\ \E i \in DOMAIN messages[Len(messages)].tool_calls :
          ToolRaises(messages[Len(messages)].tool_calls[i])

\* ToolNode on one tool call
RunOne(call) ==
    IF call.name \notin ToolsByName
    THEN ToolMessage("Error: " \o call.name \o " is not a valid tool, try one of [retail_footprint_api].",
                     call.name, call.id, "error")
    ELSE IF ~call.args.valid
    THEN ToolMessage("Error: ToolException('Too many arguments to single-input tool') Please fix your mistakes.",
                     call.name, call.id, "error")
    ELSE ToolMessage(QueryRetailFootprintApi(call.args.query),
                     call.name, call.id, "success")

\* A tools node that tags every result with the id of the first call.
ToolNodeFirstId(messages) ==
    LET last == messages[Len(messages)]
    IN  [i \in DOMAIN last.tool_calls |->
            RunOne([last.tool_calls[i] EXCEPT !.id = last.tool_calls[1].id])]

\* A tools node in which one unknown tool name fails the whole batch.
ToolNodeBatchFails(messages) ==
    LET last == messages[Len(messages)]
        bad == \E i \in DOMAIN last.tool_calls : last.tool_calls[i].name \notin ToolsByName
    IN  [i \in DOMAIN last.tool_calls |->
            IF bad
            THEN ToolMessage("Error: the batch holds an invalid tool.",
                             last.tool_calls[i].name, last.tool_calls[i].id, "error")
            ELSE RunOne(last.tool_calls[i])]

\* A tools node that answers only the first tool call of the last message.
ToolNodeFirstOnly(messages) ==
    LET last == messages[Len(messages)]
    IN  [i \in {j \in DOMAIN last.tool_calls : j = 1} |-> RunOne(last.tool_calls[i])]

\* The tools node: one ToolMessage per tool call of the last message, in order
ToolNode(messages) ==
    LET last == messages[Len(messages)]
    IN  [i \in DOMAIN last.tool_calls |-> RunOne(last.tool_calls[i])]

\* ------------------------------------------------ the language model (input)

\* What a response costs of the run's variety: each call after the first,
\* and each call that is not the plain one.
Cost(shapes) ==
    (Len(shapes) - 1) + Cardinality({i \in DOMAIN shapes : shapes[i] # PlainCall})

ShapeOf(call) == [name |-> call.name, args |-> call.args]

RECURSIVE Spent(_)
\* The variety the responses of a conversation have used.
Spent(messages) ==
    IF messages = <<>> THEN 0
    ELSE LET m == Head(messages)
         IN  (IF m.type = "ai" /\ m.tool_calls # <<>>
              THEN Cost([i \in DOMAIN m.tool_calls |-> ShapeOf(m.tool_calls[i])])
              ELSE 0) + Spent(Tail(messages))

\* The responses the language model has given in a conversation.
ModelTurns(messages) ==
    Cardinality({i \in DOMAIN messages : messages[i].type = "ai"})

\* The tool requests a response may carry after this conversation: none (a
\* final answer), or up to MaxVariety + 1 calls within the variety left.
Responses(messages) ==
    LET left == IF ModelTurns(messages) < MaxVariedTurns
                THEN MaxVariety - Spent(messages)
                ELSE 0
    IN  {<<>>} \cup
        {shapes \in UNION {[1..n -> CallShapes] : n \in 1..(left + 1)} :
            Cost(shapes) <= left}

\* The ways self.llm.invoke can fail.
LlmErrors == {"Connection error.", "Rate limit exceeded."}

\* ------------------------------------------------------------------- state

VARIABLES
    conv,        \* state['messages'] of the run
    pc,          \* IDLE, then the loop's AWAITING_MODEL / AWAITING_TOOLS / DONE
    step,        \* the graph loop's super-step counter
    status,      \* the graph loop's status: pending, done, out_of_steps, tool_error
    result,      \* what analyze returned (kind "none" until it returns)
    nextId,      \* the next unused message / tool-call id
    trace,       \* the nodes run so far, in order
    llmFaults,   \* how many calls of self.llm.invoke have raised
    toolQuery,   \* the argument of a direct call of the tool
    toolReply,   \* what that call returned ("" until it returns)
    runs,        \* several analyze calls in flight: each call's loop state
    channels,    \* each graph.invoke's own state['messages']
    interrupted  \* whether another call took a step while this one was in flight

mainVars == <<conv, pc, step, status, result, nextId, trace, llmFaults>>

toolVars == <<toolQuery, toolReply>>

runVars == <<runs, channels, interrupted>>

vars == <<conv, pc, step, status, result, nextId, trace, llmFaults,
          toolQuery, toolReply, runs, channels, interrupted>>

NoResult == [kind |-> "none", messages |-> <<>>, error |-> ""]

\* The analyze calls that may be in flight together.
Runs == {"a", "b"}

\* An analyze call that has not started; script is what self.llm.invoke
\* will do at its successive calls.
IdleRun(script) ==
    [pc |-> "IDLE", step |-> 0 - 1, status |-> "pending", result |-> NoResult,
     nextId |-> 1, script |-> script, given |-> script]

MainInit ==
    /\ conv = <<>>
    /\ pc = "IDLE"
    /\ step = 0 - 1
    /\ status = "pending"
    /\ result = NoResult
    /\ nextId = 1
    /\ trace = <<>>
    /\ llmFaults = 0

ToolInit ==
    /\ toolQuery = <<>>
    /\ toolReply = ""

RunsInit ==
    /\ runs = [r \in Runs |-> IdleRun(<<>>)]
    /\ channels = [r \in Runs |-> <<>>]
    /\ interrupted = [r \in Runs |-> FALSE]

Init == MainInit /\ ToolInit /\ RunsInit

\* A loop that stops two steps later.
StopTwoStepsLater == (0 - 1) + RecursionLimit + 3

\* The loop stops once step exceeds this (PregelLoop: stop = step + limit + 1
\* with step = -1 on a fresh run).
Stop == (0 - 1) + RecursionLimit + 1

\* 'agent' -> _should_continue -> 'tools' | END;  'tools' -> 'agent'
NextAfterAgent(messages) ==
    IF ShouldContinue(messages) = "tools" THEN "AWAITING_TOOLS" ELSE "DONE"

\* graph.add_edge('tools', END) in place of the edge back to the agent.
NextAfterToolsEnd == "DONE"

\* graph.add_edge('tools', 'agent')
NextAfterTools == "AWAITING_MODEL"

\* The graph loop between two super-steps: the writes are applied, the step
\* is counted, and the run ends out of steps or goes on to the next node.
Tick(next) ==
    /\ step' = step + 1
    /\ IF step + 1 > Stop
       THEN pc' = "DONE" /\ status' = "out_of_steps"
       ELSE pc' = next /\ status' = (IF next = "DONE" THEN "done" ELSE status)

\* analyze(query) up to the first node: the input is written through the
\* reducer and the START step runs (edge START -> agent).
AnalyzeStart ==
    /\ pc = "IDLE"
    /\ \E query \in UserQueries :
         LET input == AddMessages(<<>>, <<HumanMessage(query)>>, nextId)
         IN  /\ conv' = input.msgs
             /\ nextId' = input.next
    /\ pc' = "AWAITING_MODEL"
    /\ step' = step + 2
    /\ UNCHANGED <<status, result, trace, llmFaults, toolVars, runVars>>

\* The agent node answering with a response of the language model.
AgentOk ==
    /\ pc = "AWAITING_MODEL"
    /\ \E shapes \in Responses(conv) :
         LET llm == [ok |-> TRUE, response |-> LlmResponse(shapes, nextId), error |-> ""]
             merged == AddMessages(conv, CallModel(conv, llm), nextId + Len(shapes) + 1)
         IN  /\ conv' = merged.msgs
             /\ nextId' = merged.next
             /\ Tick(NextAfterAgent(merged.msgs))
    /\ trace' = Append(trace, "agent")
    /\ UNCHANGED <<result, llmFaults, toolVars, runVars>>

\* The agent node when self.llm.invoke raises.
AgentFail ==
    /\ pc = "AWAITING_MODEL"
    /\ \E e \in LlmErrors :
         LET llm == [ok |-> FALSE, response |-> AIMessage("", <<>>), error |-> e]
             merged == AddMessages(conv, CallModel(conv, llm), nextId)
         IN  /\ conv' = merged.msgs
             /\ nextId' = merged.next
             /\ Tick(NextAfterAgent(merged.msgs))
    /\ trace' = Append(trace, "agent")
    /\ llmFaults' = llmFaults + 1
    /\ UNCHANGED <<result, toolVars, runVars>>

\* The tools node.
Tools ==
    /\ pc = "AWAITING_TOOLS"
    /\ IF ToolNodeRaises(conv)
       THEN /\ pc' = "DONE"
            /\ status' = "tool_error"
            /\ UNCHANGED <<conv, nextId, step>>
       ELSE /\ LET merged == AddMessages(conv, ToolNode(conv), nextId)
               IN  /\ conv' = merged.msgs
                   /\ nextId' = merged.next
            /\ Tick(NextAfterTools)
    /\ trace' = Append(trace, "tools")
    /\ UNCHANGED <<result, llmFaults, toolVars, runVars>>

\* analyze without its try/except: the graph's exception reaches the caller.
AnalyzeResultNoExcept(loopStatus, messages) ==
    IF loopStatus = "done"
    THEN [kind |-> "messages", messages |-> messages, error |-> ""]
    ELSE [kind |-> "raised", messages |-> <<>>, error |-> "GraphRecursionError"]

\* analyze falling off its end without a return statement.
AnalyzeResultNeverReturns(loopStatus, messages) == NoResult

\* What analyze returns once graph.invoke has ended: the output, or, when
\* graph.invoke raised, the except clause's record.
AnalyzeResult(loopStatus, messages) ==
    IF loopStatus = "done"
    THEN [kind |-> "messages", messages |-> messages, error |-> ""]
    ELSE [kind |-> "error", messages |-> <<>>,
          error |-> IF loopStatus = "out_of_steps"
                    THEN "Recursion limit of 25 reached without hitting a stop condition."
                    ELSE "Too many arguments to single-input tool"]

\* analyze from the end of graph.invoke to its return.
AnalyzeReturn ==
    /\ pc = "DONE"
    /\ result.kind = "none"
    /\ result' = AnalyzeResult(status, conv)
    /\ UNCHANGED <<conv, pc, step, status, nextId, trace, llmFaults, toolVars, runVars>>

Next ==
    \/ AnalyzeStart
    \/ AgentOk
    \/ AgentFail
    \/ Tools
    \/ AnalyzeReturn

Spec == Init /\ [][Next]_vars

\* The graph loop and analyze are one sequential call: a step that can be
\* taken is taken.
FairSpec == Spec /\ WF_vars(Next)

\* ------------------------------------------------- the tool called directly

\* Pieces of queries: the keywords whole, in halves and in several cases.
Fragments ==
    {<<"p","u">>, <<"n","e">>, <<"P","U">>, <<"N","e">>, <<" ">>,
     QMarathahalli, <<"M","A","R","A","T","H","A">>, <<"h","a","l","l","i">>,
     QOther}

RECURSIVE Join(_)
Join(pieces) == IF pieces = <<>> THEN <<>> ELSE Head(pieces) \o Join(Tail(pieces))

FragmentQueries ==
    {Join(pieces) : pieces \in UNION {[1..n -> Fragments] : n \in 0..MaxFragments}}

ToolSpecInit ==
    /\ MainInit /\ RunsInit
    /\ toolQuery \in FragmentQueries
    /\ toolReply = ""

\* self._query_retail_footprint_api(query)
CallTool ==
    /\ toolReply = ""
    /\ toolReply' = QueryRetailFootprintApi(toolQuery)
    /\ UNCHANGED <<toolQuery, mainVars, runVars>>

SpecTool == ToolSpecInit /\ [][CallTool]_vars

\* ------------------------------------------------- several calls in flight

\* What self.llm.invoke does at one call: a response with its tool calls, or
\* an exception.
Outcomes ==
    {[ok |-> TRUE, shapes |-> <<>>, error |-> ""],
     [ok |-> TRUE, shapes |-> <<PlainCall>>, error |-> ""],
     [ok |-> TRUE, error |-> "",
      shapes |-> <<CallShape(ToolName, TRUE, QPune), CallShape("unknown_tool", TRUE, QOther)>>],
     [ok |-> FALSE, shapes |-> <<>>, error |-> "Connection error."]}

IsRequest(o) == o.ok /\ o.shapes # <<>>

\* What the language model does in one analyze call: requests, and then a
\* final answer or a failure.
Scripts ==
    {script \in UNION {[1..n -> Outcomes] : n \in 1..MaxScriptLen} :
        \A i \in DOMAIN script : IsRequest(script[i]) <=> i < Len(script)}

\* The query each call is given.
RunQuery(r) ==
    IF r = "a" THEN "Analyze the footfall patterns for retail stores in Marathahalli, Bangalore."
    ELSE "What is the busiest day in Pune?"

\* All calls of graph.invoke writing one state.
SharedChannel(r) == "a"

\* graph.invoke without a checkpointer: the state of each call is its own.
ChannelOf(r) == r

\* The graph loop between two super-steps, as a function.
TickOf(current, next) ==
    IF current + 1 > Stop
    THEN [pc |-> "DONE", status |-> "out_of_steps"]
    ELSE [pc |-> next, status |-> IF next = "DONE" THEN "done" ELSE "pending"]

\* analyze(query) up to the first node.
StartOf(run, query) ==
    LET input == AddMessages(<<>>, <<HumanMessage(query)>>, run.nextId)
    IN  [run |-> [run EXCEPT !.pc = "AWAITING_MODEL", !.step = run.step + 2,
                             !.nextId = input.next],
         msgs |-> input.msgs]

\* The agent node, the language model doing what the script says next.
AgentOf(run, messages) ==
    LET o == Head(run.script)
        llm == [ok |-> o.ok, response |-> LlmResponse(o.shapes, run.nextId),
                error |-> o.error]
        nid == IF o.ok THEN run.nextId + Len(o.shapes) + 1 ELSE run.nextId
        merged == AddMessages(messages, CallModel(messages, llm), nid)
        t == TickOf(run.step, NextAfterAgent(merged.msgs))
    IN  [run |-> [run EXCEPT !.pc = t.pc, !.status = t.status,
                             !.step = run.step + 1, !.nextId = merged.next,
                             !.script = Tail(run.script)],
         msgs |-> merged.msgs]

\* The tools node.
ToolsOf(run, messages) ==
    IF ToolNodeRaises(messages)
    THEN [run |-> [run EXCEPT !.pc = "DONE", !.status = "tool_error"],
          msgs |-> messages]
    ELSE LET merged == AddMessages(messages, ToolNode(messages), run.nextId)
             t == TickOf(run.step, NextAfterTools)
         IN  [run |-> [run EXCEPT !.pc = t.pc, !.status = t.status,
                                  !.step = run.step + 1, !.nextId = merged.next],
              msgs |-> merged.msgs]

\* analyze from the end of graph.invoke to its return.
ReturnOf(run, messages) ==
    [run EXCEPT !.result = AnalyzeResult(run.status, messages)]

InFlight(r) == runs[r].pc # "IDLE" /\ runs[r].result.kind = "none"

\* Call r takes a step: the calls in flight beside it have been interrupted.
Interrupt(r) ==
    interrupted' = [o \in Runs |-> interrupted[o] \/ (o # r /\ InFlight(o))]

Write(r, next) ==
    /\ runs' = [runs EXCEPT ![r] = next.run]
    /\ channels' = [channels EXCEPT ![ChannelOf(r)] = next.msgs]
    /\ Interrupt(r)
    /\ UNCHANGED <<mainVars, toolVars>>

RunStart(r) ==
    /\ runs[r].pc = "IDLE"
    /\ Write(r, StartOf(runs[r], RunQuery(r)))

RunAgent(r) ==
    /\ runs[r].pc = "AWAITING_MODEL"
    /\ Write(r, AgentOf(runs[r], channels[ChannelOf(r)]))

RunTools(r) ==
    /\ runs[r].pc = "AWAITING_TOOLS"
    /\ Write(r, ToolsOf(runs[r], channels[ChannelOf(r)]))

RunReturn(r) ==
    /\ runs[r].pc = "DONE"
    /\ runs[r].result.kind = "none"
    /\ runs' = [runs EXCEPT ![r] = ReturnOf(runs[r], channels[ChannelOf(r)])]
    /\ Interrupt(r)
    /\ UNCHANGED <<channels, mainVars, toolVars>>

RunsSpecInit ==
    /\ MainInit /\ ToolInit
    /\ runs \in [Runs -> {IdleRun(script) : script \in Scripts}]
    /\ channels = [r \in Runs |-> <<>>]
    /\ interrupted = [r \in Runs |-> FALSE]

RunsNext ==
    \E r \in Runs :
        \/ RunStart(r)
        \/ RunAgent(r)
        \/ RunTools(r)
        \/ RunReturn(r)

SpecRuns == RunsSpecInit /\ [][RunsNext]_vars

\* ------------------------------------------------------------------ claims

Last(s) == s[Len(s)]

\* The ToolInvocationRequests a message carries.
Requests(m) == IF m.type = "ai" THEN m.tool_calls ELSE <<>>

\* The content _call_model gives the message that stands for a failed call.
ErrorContents == {"An error occurred: " \o e : e \in LlmErrors}

IsDegraded(m) == m.content \in ErrorContents

Degraded(messages) == {i \in DOMAIN messages : IsDegraded(messages[i])}

Systems(messages) == {i \in DOMAIN messages : IsSystem(messages[i])}

AfterModelStep == trace # <<>> /\ Last(trace) = "agent"

\* The loop states visited so far, the current one included.
Visited ==
    [i \in 1..Len(trace) |->
        IF trace[i] = "agent" THEN "AWAITING_MODEL" ELSE "AWAITING_TOOLS"] \o <<pc>>

AiMessages(messages) == SelectSeq(messages, LAMBDA m : m.type = "ai")

\* C1: analyze never lets an exception reach its caller: whatever it has
\* returned is the graph's output (a conversation record) or, when
\* graph.invoke raised, an error record.
C1_AnalyzeNeverRaises ==
    /\ result.kind \in {"none", "messages", "error"}
    /\ result.kind = "messages" => status = "done" /\ result.messages = conv
    /\ result.kind = "error" => status = "out_of_steps" /\ result.error # ""

\* A run that graph.invoke ended with an exception, returned as an error record.
C1_Witness == result.kind = "error" /\ Len(trace) >= RecursionLimit

\* The routing the Loop Controller is claimed to do after a model step.
RoutedByLastMessage ==
    /\ pc = "AWAITING_TOOLS" <=> Requests(Last(conv)) # <<>>
    /\ Requests(Last(conv)) = <<>> =>
          /\ pc = "DONE"
          /\ result.kind # "none" =>
                result.kind = "messages" /\ Last(result.messages) = Last(conv)

\* C2 as stated: after every Model Invoker step the loop is in AWAITING_TOOLS
\* iff the last message carries a request, and otherwise in DONE with that
\* message as the RunResult.
C2_Original == AfterModelStep => RoutedByLastMessage

\* C2 amended: the same after every Model Invoker step that leaves the graph
\* loop within its recursion limit; the step that runs it out of super-steps
\* ends the run in DONE with an error record, whatever the last message carries.
C2_RoutedWithinLimit ==
    AfterModelStep =>
        /\ status # "out_of_steps" => RoutedByLastMessage
        /\ status = "out_of_steps" =>
              pc = "DONE" /\ result.kind \in {"none", "error"}

\* A run whose responses were routed to the tools until a model step, its
\* response carrying a request again, ran the loop out of super-steps.
C2_Witness ==
    /\ AfterModelStep /\ status = "out_of_steps"
    /\ Requests(Last(conv)) # <<>>
    /\ \E i \in DOMAIN trace : trace[i] = "tools"
    /\ result.kind = "error"

\* C3: when the first response carries a tool request and the second none,
\* the loop has visited AWAITING_MODEL, AWAITING_TOOLS, AWAITING_MODEL, DONE
\* and run exactly agent, tools, agent.
C3_SingleToolCallRun ==
    LET ai == AiMessages(conv)
    IN  (Len(ai) >= 2 /\ ai[1].tool_calls # <<>> /\ ai[2].tool_calls = <<>>) =>
            /\ Visited = <<"AWAITING_MODEL", "AWAITING_TOOLS", "AWAITING_MODEL", "DONE">>
            /\ trace = <<"agent", "tools", "agent">>
            /\ Len(ai) = 2

\* Such a run has returned its conversation.
C3_Witness ==
    LET ai == AiMessages(conv)
    IN  /\ Len(ai) >= 2 /\ ai[1].tool_calls # <<>> /\ ai[2].tool_calls = <<>>
        /\ result.kind = "messages"

\* C4: the first step of a run is a model invocation, a dispatch comes only
\* right after a model invocation (never two dispatches in a row), a dispatch
\* leaves the loop in AWAITING_MODEL, and DONE is entered from a model
\* invocation only.
C4_DispatchThenModel ==
    /\ trace # <<>> => trace[1] = "agent"
    /\ \A i \in DOMAIN trace :
          trace[i] = "tools" => i > 1 /\ trace[i - 1] = "agent"
    /\ \A i \in DOMAIN trace :
          (trace[i] = "tools" /\ i < Len(trace)) => trace[i + 1] = "agent"
    /\ (trace # <<>> /\ Last(trace) = "tools") => pc = "AWAITING_MODEL"
    /\ pc = "DONE" => trace # <<>> /\ Last(trace) = "agent"

\* Two dispatches, each followed by a model invocation.
C4_Witness ==
    /\ Len(trace) >= 5
    /\ trace[2] = "tools" /\ trace[4] = "tools" /\ trace[5] = "agent"

\* C5 as stated: a Model Invoker step whose model call fails appends exactly
\* one degraded message, of role Assistant, whose content describes the error.
C5_Original ==
    [][AgentFail =>
          /\ conv' # <<>>
          /\ IsDegraded(Last(conv'))
          /\ Cardinality(Degraded(conv')) = Cardinality(Degraded(conv)) + 1
          /\ Last(conv').type = "ai"]_vars

\* C6 as stated: a run in which a model call failed returns an error record.
C6_Original ==
    (result.kind # "none" /\ llmFaults > 0) => result.kind = "error"

\* C6 amended: a run in which a model call failed returns, without raising,
\* the conversation record whose last message is the degraded message; it
\* returns an error record only when that step ran the graph loop out of
\* super-steps.
C6_FailureReturnsConversation ==
    (result.kind # "none" /\ llmFaults > 0) =>
        /\ status = "done" =>
              /\ result.kind = "messages"
              /\ IsDegraded(Last(result.messages))
              /\ Requests(Last(result.messages)) = <<>>
        /\ status = "out_of_steps" => result.kind = "error"
        /\ result.kind # "raised"

\* A run whose second model call failed has returned its conversation.
C6_Witness ==
    /\ result.kind = "messages" /\ llmFaults > 0
    /\ trace = <<"agent", "tools", "agent">>

AgentStep == AgentOk \/ AgentFail

\* C7 as stated: a Model Invoker step on a conversation with no System
\* message leaves the run state's conversation with a System message as its
\* first element.
C7_Original ==
    [][(AgentStep /\ Systems(conv) = {}) => IsSystem(conv'[1])]_vars

\* C8: the conversation holds at most one System message.
C8_AtMostOneSystem == Cardinality(Systems(conv)) <= 1

\* After three model steps, the last one failed, one System message is held.
C8_Witness ==
    /\ Cardinality(Systems(conv)) = 1
    /\ Len(SelectSeq(trace, LAMBDA n : n = "agent")) >= 3
    /\ llmFaults > 0

\* C9: every step leaves the messages already in the conversation as they
\* are and where they are, and only adds messages after them.
C9_AppendOnly ==
    [][/\ Len(conv') >= Len(conv)
       /\ \A i \in DOMAIN conv : conv'[i] = conv[i]]_vars

\* Model steps and dispatches have each added messages to the conversation.
C9_Witness ==
    /\ Len(trace) >= 4
    /\ Len(conv) >= 7

\* The requests of a conversation: <<j, k, id>> for request k, of invocation
\* identifier id, of message j.
AllRequests(messages) ==
    UNION {{<<j, k, Requests(messages[j])[k].id>> : k \in DOMAIN Requests(messages[j])} :
              j \in DOMAIN messages}

ToolResults(messages) == {i \in DOMAIN messages : messages[i].type = "tool"}

\* C10: every ToolResult answers exactly one request, which precedes it in
\* the conversation, and no two ToolResults answer the same request.
C10_ResultMatchesOneRequest ==
    LET requests == AllRequests(conv)
        results == ToolResults(conv)
    IN  /\ \A i \in results :
              LET mine == {r \in requests : r[3] = conv[i].tool_call_id}
              IN  /\ Cardinality(mine) = 1
                  /\ \A r \in mine : r[1] < i
        /\ \A i, j \in results :
              conv[i].tool_call_id = conv[j].tool_call_id => i = j

\* Two dispatches, one of them of two requests, have been answered.
C10_Witness ==
    /\ Cardinality(ToolResults(conv)) >= 3
    /\ Len(SelectSeq(trace, LAMBDA n : n = "tools")) >= 2

\* The index of the last Assistant message of a conversation (0 when none).
LastAi(messages) ==
    IF \E j \in DOMAIN messages : messages[j].type = "ai"
    THEN CHOOSE j \in DOMAIN messages :
            /\ messages[j].type = "ai"
            /\ \A l \in DOMAIN messages : messages[l].type = "ai" => l <= j
    ELSE 0

\* The invocation identifiers that have a ToolResult in a conversation.
Resolved(messages) == {messages[i].tool_call_id : i \in ToolResults(messages)}

\* C11: whenever the model is about to be invoked after a dispatch, every
\* request of the preceding Assistant message (and of every earlier one) has
\* its ToolResult in the conversation: the results of the last Assistant
\* message follow it, one per request, in the order of the requests.
C11_NoPendingRequestAtModel ==
    (pc = "AWAITING_MODEL" /\ trace # <<>>) =>
        LET j == LastAi(conv)
            calls == Requests(conv[j])
        IN  /\ Last(trace) = "tools"
            /\ j # 0 /\ calls # <<>>
            /\ Len(conv) = j + Len(calls)
            /\ \A k \in DOMAIN calls :
                  /\ conv[j + k].type = "tool"
                  /\ conv[j + k].tool_call_id = calls[k].id
            /\ \A r \in AllRequests(conv) : r[3] \in Resolved(conv)

\* The model is about to be invoked after the dispatch of three requests.
C11_Witness ==
    /\ pc = "AWAITING_MODEL" /\ trace # <<>>
    /\ Len(Requests(conv[LastAi(conv)])) >= 3

\* The ToolResult of request k of message j, once the batch is dispatched.
Dispatched(messages, j) == Len(messages) >= j + Len(Requests(messages[j]))

UnknownToolContent(name) ==
    "Error: " \o name \o " is not a valid tool, try one of [retail_footprint_api]."

\* C12: a request naming a tool that is not registered gets an error
\* ToolResult of its own; the requests of the same batch that name the
\* registered tool with fitting arguments get the tool's output; nothing is
\* raised and the loop is back in AWAITING_MODEL after the dispatch.
C12_UnknownToolIsAnErrorResult ==
    /\ status # "tool_error"
    /\ \A j \in DOMAIN conv :
          (Requests(conv[j]) # <<>> /\ Dispatched(conv, j)) =>
              \A k \in DOMAIN Requests(conv[j]) :
                  LET call == Requests(conv[j])[k]
                      res == conv[j + k]
                  IN  /\ res.type = "tool" /\ res.tool_call_id = call.id
                      /\ call.name # ToolName =>
                            /\ res.status = "error"
                            /\ res.content = UnknownToolContent(call.name)
                      /\ (call.name = ToolName /\ call.args.valid) =>
                            /\ res.status = "success"
                            /\ res.content = QueryRetailFootprintApi(call.args.query)
    /\ (trace # <<>> /\ Last(trace) = "tools") => pc = "AWAITING_MODEL"

\* A batch of an unknown tool's request and a served one has been dispatched.
C12_Witness ==
    /\ pc = "AWAITING_MODEL"
    /\ \E i, l \in ToolResults(conv) :
          /\ conv[i].name # ToolName /\ conv[i].status = "error"
          /\ conv[l].name = ToolName /\ conv[l].status = "success"
          /\ (i = l + 1 \/ l = i + 1)

\* C13: a tool that raises while serving a request does not abort the run:
\* the dispatch appends an error ToolResult tagged with the identifier of
\* that request and the loop is back in AWAITING_MODEL.
C13_RaisingToolIsAnErrorResult ==
    /\ status # "tool_error"
    /\ result.kind = "error" => status = "out_of_steps"
    /\ \A j \in DOMAIN conv :
          Requests(conv[j]) # <<>> =>
              \A k \in DOMAIN Requests(conv[j]) :
                  ToolRaises(Requests(conv[j])[k]) =>
                      /\ (pc = "AWAITING_TOOLS" /\ j = Len(conv)) \/ Dispatched(conv, j)
                      /\ Dispatched(conv, j) =>
                            /\ conv[j + k].type = "tool"
                            /\ conv[j + k].status = "error"
                            /\ conv[j + k].tool_call_id = Requests(conv[j])[k].id
    /\ (trace # <<>> /\ Last(trace) = "tools") => pc = "AWAITING_MODEL"

\* The model has answered after a dispatch in which the tool raised.
C13_Witness ==
    /\ \E j \in DOMAIN conv : \E k \in DOMAIN Requests(conv[j]) :
          ToolRaises(Requests(conv[j])[k]) /\ Dispatched(conv, j)
    /\ Len(AiMessages(conv)) >= 2
    /\ result.kind = "messages"

\* C14 as stated: whenever a run is DONE and analyze has returned, the
\* result is an error record or a conversation whose last message is an
\* Assistant message without tool requests.
C14_Original ==
    (pc = "DONE" /\ result.kind # "none") =>
        \/ result.kind = "error"
        \/ /\ result.kind = "messages"
           /\ Last(result.messages).type = "ai"
           /\ Requests(Last(result.messages)) = <<>>

\* The query matches neither location (said without the tool's own code).
MatchesNeither(query) ==
    /\ ~Contains(KeyMarathahalli, Lower(query))
    /\ ~Contains(KeyPune, Lower(query))

NoDataContent == "{error: No specific data available for this location}"

\* The served requests whose query matches neither location, as <<j, k>>.
NoDataRequests(messages) ==
    {r \in AllRequests(messages) :
        LET call == Requests(messages[r[1]])[r[2]]
        IN  call.name = ToolName /\ call.args.valid /\ MatchesNeither(call.args.query)}

\* C15: a query matching neither location is answered with the error record
\* as an ordinary (success) ToolResult appended to the conversation, and once
\* the model then answers without a tool request the run is DONE and analyze
\* returns the conversation or the recursion error, never an exception.
C15_NoDataIsAnOrdinaryResult ==
    \A r \in NoDataRequests(conv) :
        /\ Dispatched(conv, r[1]) =>
              /\ conv[r[1] + r[2]].type = "tool"
              /\ conv[r[1] + r[2]].status = "success"
              /\ conv[r[1] + r[2]].content = NoDataContent
        /\ (/\ Dispatched(conv, r[1]) /\ AfterModelStep
            /\ Last(conv).type = "ai" /\ Requests(Last(conv)) = <<>>) =>
              /\ pc = "DONE"
              /\ result.kind \in {"none", "messages", "error"}
              /\ result.kind = "messages" => result.messages = conv

\* The model has answered the error record without a further request and
\* analyze has returned the conversation.
C15_Witness ==
    /\ \E r \in NoDataRequests(conv) : Dispatched(conv, r[1])
    /\ Last(conv).type = "ai" /\ Requests(Last(conv)) = <<>>
    /\ pc = "DONE" /\ result.kind = "messages"

\* Every model invocation so far answered with at least one tool request.
AlwaysRequesting ==
    /\ llmFaults = 0
    /\ trace # <<>>
    /\ \A i \in DOMAIN conv : conv[i].type = "ai" => conv[i].tool_calls # <<>>

\* C18 as stated: a run in which the model asks for a tool at every
\* invocation never reaches DONE.
C18_Original == AlwaysRequesting => pc # "DONE"

\* C18 amended: the graph's default recursion limit is the guard: such a run
\* alternates model invocation and tool dispatch and is DONE exactly after
\* the step that makes RecursionLimit steps (the 13th model invocation), with
\* the recursion error as its result; no run takes more steps than that.
C18_RecursionLimitEndsTheRun ==
    /\ Len(trace) <= RecursionLimit
    /\ AlwaysRequesting =>
          /\ \A i \in DOMAIN trace : trace[i] = (IF i % 2 = 1 THEN "agent" ELSE "tools")
          /\ pc = "DONE" <=> Len(trace) = RecursionLimit
          /\ pc = "DONE" => status = "out_of_steps"
          /\ result.kind # "none" => result.kind = "error"

C18_Witness ==
    /\ AlwaysRequesting
    /\ pc = "DONE" /\ result.kind = "error"
    /\ Len(SelectSeq(trace, LAMBDA n : n = "agent")) = 13

\* C19: the step in which the model call fails leads to DONE, and after a
\* failed model call no node runs again: the only step left is the return
\* of analyze.
C19_FailureEndsTheLoop ==
    [][/\ llmFaults' > llmFaults => pc' = "DONE"
       /\ llmFaults > 0 => /\ pc = "DONE" /\ pc' = "DONE"
                           /\ trace' = trace /\ conv' = conv]_vars

\* A model call failed after an Assistant message that carried tool requests.
C19_Witness ==
    /\ llmFaults > 0
    /\ \E i \in DOMAIN conv : Requests(conv[i]) # <<>>
    /\ pc = "DONE" /\ result.kind = "messages"

\* The model has just answered without a tool request, or its call failed.
ModelGaveFinalAnswer ==
    /\ AfterModelStep
    /\ \/ llmFaults > 0
       \/ Last(conv).type = "ai" /\ Requests(Last(conv)) = <<>>

\* C20: under fair scheduling, once the model has answered without a tool
\* request or a model call has failed, the run reaches DONE and analyze
\* returns; and from DONE on no model invocation or tool dispatch happens.
C20_FinalAnswerLeadsToReturn ==
    /\ ModelGaveFinalAnswer ~> (pc = "DONE" /\ result.kind # "none")
    /\ [][pc = "DONE" => /\ pc' = "DONE"
                         /\ trace' = trace /\ conv' = conv]_vars

\* A run that dispatched tools, got a final answer and returned.
C20_Witness ==
    /\ ModelGaveFinalAnswer /\ llmFaults = 0
    /\ Len(trace) >= 3
    /\ pc = "DONE" /\ result.kind = "messages"

\* The same letter, whatever the case.
SameLetter(a, b) ==
    \/ a = b
    \/ \E i \in DOMAIN UpperChars : {a, b} = {UpperChars[i], LowerChars[i]}

\* text contains word in some letter case
ContainsAnyCase(word, text) ==
    \E k \in 0..(Len(text) - Len(word)) :
        \A i \in 1..Len(word) : SameLetter(text[k + i], word[i])

\* The record a reply of the tool stands for.
JsonLoads(text) ==
    CHOOSE data \in {MockMarathahalli, MockPune, MockNoData} : JsonDumps(data) = text

\* C16 as stated: every query that contains "pune" in any letter case gets a
\* record whose busiest_day is "Sunday".
C16_Original ==
    (toolReply # "" /\ ContainsAnyCase(KeyPune, toolQuery)) =>
        JsonLoads(toolReply).busiest_day = "Sunday"

\* C16 amended: a query that contains "pune" in any letter case and does not
\* contain "marathahalli" in any letter case gets busiest_day "Sunday"; a
\* query that contains "marathahalli" gets the Marathahalli record
\* (busiest_day "Saturday"), also when it contains "pune".
C16_PuneUnlessMarathahalli ==
    toolReply # "" =>
        /\ (/\ ContainsAnyCase(KeyPune, toolQuery)
            /\ ~ContainsAnyCase(KeyMarathahalli, toolQuery)) =>
              JsonLoads(toolReply).busiest_day = "Sunday"
        /\ ContainsAnyCase(KeyMarathahalli, toolQuery) =>
              /\ JsonLoads(toolReply).busiest_day = "Saturday"
              /\ JsonLoads(toolReply).location = "Marathahalli, Bangalore"

\* The tool has answered a query that spells "pune" in mixed case.
C16_Witness ==
    /\ toolReply # ""
    /\ ContainsAnyCase(KeyPune, toolQuery)
    /\ ~Contains(KeyPune, toolQuery)
    /\ ~Contains(QPune, toolQuery)
    /\ ~ContainsAnyCase(KeyMarathahalli, toolQuery)

RECURSIVE Finish(_, _)
\* The result of a call that goes on by itself from this point.
Finish(run, messages) ==
    IF run.result.kind # "none" THEN run.result
    ELSE IF run.pc = "DONE" THEN ReturnOf(run, messages).result
    ELSE IF run.pc = "AWAITING_MODEL"
    THEN Finish(AgentOf(run, messages).run, AgentOf(run, messages).msgs)
    ELSE Finish(ToolsOf(run, messages).run, ToolsOf(run, messages).msgs)

\* The result of analyze(query) run alone with the language model following
\* the script.
RunAlone(query, script) ==
    Finish(StartOf(IdleRun(script), query).run, StartOf(IdleRun(script), query).msgs)

\* C17: with several analyze calls interleaved, a step of one call leaves
\* the conversation of every other call as it was, a conversation holds only
\* its own call's query, and the result a call returns is the result it
\* returns when run alone with the same model and tool responses.
C17_RunsDoNotInterfere ==
    /\ [](\A r \in Runs :
            /\ runs[r].result.kind # "none" =>
                  runs[r].result = RunAlone(RunQuery(r), runs[r].given)
            /\ \A i \in DOMAIN channels[ChannelOf(r)] :
                  channels[ChannelOf(r)][i].type = "human" =>
                      \/ channels[ChannelOf(r)][i].content = RunQuery(r)
                      \/ IsDegraded(channels[ChannelOf(r)][i]))
    /\ [][\A r \in Runs :
            runs'[r] = runs[r] => channels'[ChannelOf(r)] = channels[ChannelOf(r)]]_vars

\* Both calls were interrupted by the other, dispatched tools and returned.
C17_Witness ==
    \A r \in Runs :
        /\ interrupted[r]
        /\ runs[r].result.kind = "messages"
        /\ \E i \in DOMAIN runs[r].result.messages :
              runs[r].result.messages[i].type = "tool"

====
